---- MODULE Spec2Model ----
(***************************************************************************)
(* A model of hpke-rs: the HPKE engine configuration (Hpke), the key       *)
(* schedule, the two setup operations, the stateful Context (seal, open,   *)
(* export, compute_nonce, increment_seq), the single-shot operations and   *)
(* the codepoint conversions of src/lib.rs and src/aead.rs.                *)
(*                                                                         *)
(* The KEM, KDF and AEAD providers and util:: live outside the two source  *)
(* files; they are modelled as ideal primitives (free terms) after the     *)
(* interface contracts of the specification.  A byte string is either a    *)
(* sequence of numbers 0..255 or a term whose first element is a tag.      *)
(***************************************************************************)
EXTENDS Integers, Sequences, FiniteSets, TLC

\* ---------------------------------------------------------------- bounds
\* Ciphertexts a Context keeps in its log of sealed messages.
MaxMsgs == 2
\* How many values below u32::MAX a long-running Context starts at in SpecLong.
NearMax == 1

\* ------------------------------------------------------------ u32 values
\* TLC's integers are 32-bit signed, so a u32 is held as two 16-bit limbs,
\* hi * 65536 + lo.
Limb == 256 * 256

U32(hi, lo) == [hi |-> hi, lo |-> lo]

U32Zero == U32(0, 0)

U32Max == U32(Limb - 1, Limb - 1)

U32Lt(a, b) == a.hi < b.hi \/ (a.hi = b.hi /\ a.lo < b.lo)

\* a - k for a small k (no borrow out of the value)
U32Minus(a, k) ==
    IF a.lo >= k THEN U32(a.hi, a.lo - k) ELSE U32(a.hi - 1, a.lo + Limb - k)

\* u32 + 1 with the outcome of the addition: "wrapped" is what a build without
\* overflow checks stores, "overflow" says the addition left the u32 range.
U32Add1(a) ==
    IF a.lo < Limb - 1 THEN [val |-> U32(a.hi, a.lo + 1), overflow |-> FALSE]
    ELSE IF a.hi < Limb - 1 THEN [val |-> U32(a.hi + 1, 0), overflow |-> FALSE]
    ELSE [val |-> U32Zero, overflow |-> TRUE]

\* The number of calls a Context has answered with Ok, as a mathematical
\* integer hi * 2^32 + lo (lo a u32): what no counter of the program holds.
Count(hi, lo) == [hi |-> hi, lo |-> lo]

RECURSIVE CountAdd(_, _)
\* c + n for a small n
CountAdd(c, n) ==
    IF n = 0 THEN c
    ELSE LET a == U32Add1(c.lo)
         IN  CountAdd(Count(IF a.overflow THEN c.hi + 1 ELSE c.hi, a.val), n - 1)

\* u32::to_be_bytes
to_be_bytes(a) == << a.hi \div 256, a.hi % 256, a.lo \div 256, a.lo % 256 >>

\* u16::to_be_bytes
to_be_bytes16(x) == << x \div 256, x % 256 >>

Zeros(n) == [i \in 1..n |-> 0]

\* ------------------------------------------------------------ codepoints
Modes == {"Base", "Psk", "Auth", "AuthPsk"}

\* enum Mode discriminants (self.mode as u8)
ModeByte(m) ==
    CASE m = "Base" -> 0
      [] m = "Psk" -> 1
      [] m = "Auth" -> 2
      [] m = "AuthPsk" -> 3

\* impl From<u16> for Mode: an unknown codepoint panics
ModeFrom(x) ==
    CASE x = 0 -> [kind |-> "Ok", val |-> "Base"]
      [] x = 1 -> [kind |-> "Ok", val |-> "Psk"]
      [] x = 2 -> [kind |-> "Ok", val |-> "Auth"]
      [] x = 3 -> [kind |-> "Ok", val |-> "AuthPsk"]
      [] OTHER -> [kind |-> "Panic", val |-> "Unknown HPKE Mode"]

AeadModes == {"AesGcm128", "AesGcm256", "ChaCha20Poly1305"}

\* enum aead::Mode discriminants (self.aead_id as u16)
AeadId(a) ==
    CASE a = "AesGcm128" -> 1
      [] a = "AesGcm256" -> 2
      [] a = "ChaCha20Poly1305" -> 3

\* impl TryFrom<u16> for aead::Mode
AeadTryFrom(x) ==
    CASE x = 1 -> [kind |-> "Ok", val |-> "AesGcm128"]
      [] x = 2 -> [kind |-> "Ok", val |-> "AesGcm256"]
      [] x = 3 -> [kind |-> "Ok", val |-> "ChaCha20Poly1305"]
      [] OTHER -> [kind |-> "Err", val |-> "UnknownMode"]

\* The AEAD id the specification registers for an export-only suite.
ExportOnlyId == 65535

\* The codepoints handed to the conversions.
Codepoints == {0, 1, 2, 3, 4, ExportOnlyId}

\* impl From<aead::Error> for HPKEError with the OpenError arm returning
\* InvalidInput
HPKEErrorFrom_OpenAsInput(e) ==
    CASE e = "OpenError" -> "InvalidInput"
      [] e = "InvalidNonce" -> "InvalidConfig"
      [] e = "InvalidConfig" -> "InvalidInput"

\* impl From<aead::Error> for HPKEError
HPKEErrorFrom(e) ==
    CASE e = "OpenError" -> "OpenError"
      [] e = "InvalidNonce" -> "InvalidConfig"
      [] e = "InvalidConfig" -> "InvalidInput"

\* ----------------------------------------------------------------- values
None == << "None" >>

Some(x) == << "Some", x >>

\* Option<&[u8]>::unwrap_or_default
unwrap_or_default(o) == IF o[1] = "Some" THEN o[2] ELSE << >>

Ok(v) == [kind |-> "Ok", val |-> v]

Err(e) == [kind |-> "Err", val |-> e]

Panic(m) == [kind |-> "Panic", val |-> m]

IsOk(r, v) == r.kind = "Ok" /\ r.val = v

IsErr(r, e) == r.kind = "Err" /\ r.val = e

\* Two results are the same: both Ok with one value, both Err with one error, or
\* both the same panic.
SameResult(a, b) == a.kind = b.kind /\ a.val = b.val

\* ------------------------------------------------- KDF provider (labels)
\* Output length of the hash behind a KDF id.
Nh(kdf_id) == CASE kdf_id = 1 -> 32 [] kdf_id = 2 -> 48 [] kdf_id = 3 -> 64

\* LabeledExtract: Extract(salt, "HPKE-v1" || suite_id || label || ikm), with
\* Extract an ideal hash.
labeled_extract(salt, suite_id, label, ikm) ==
    << "Extract", salt, << "HPKE-v1", suite_id, label, ikm >> >>

\* LabeledExpand: Expand(prk, be16(L) || "HPKE-v1" || suite_id || label || info, L),
\* with Expand an ideal hash of output length L.
labeled_expand(prk, suite_id, label, info, L) ==
    << "Expand", prk, << to_be_bytes16(L), "HPKE-v1", suite_id, label, info >>, L >>

\* Vec::len of an Expand output
ExpandLen(x) == x[4]

\* util::xor_bytes on a counter block and a derived byte string: XOR with the
\* zero block is the identity, and otherwise injective in the counter block.
xor_bytes(a, b) == IF a = Zeros(Len(a)) THEN b ELSE << "xor", a, b >>

\* ------------------------------------------------------- AEAD provider
\* Key and nonce lengths of the AEADs.
Nk(a) == CASE a = "AesGcm128" -> 16 [] a = "AesGcm256" -> 32 [] a = "ChaCha20Poly1305" -> 32

Nn(a) == 12

\* What the provider does on a call: work, or fail with one of its errors.
Faults == {"none", "InvalidConfig", "InvalidNonce"}

\* AeadTrait::seal: an ideal AEAD, the ciphertext binds key, nonce, aad and pt.
AeadSeal(key, nonce, aad, pt, fault) ==
    IF fault # "none" THEN Err(fault) ELSE Ok(<< "aead", key, nonce, aad, pt >>)

\* AeadTrait::open: the plaintext, when the ciphertext was sealed under the same
\* key, nonce and aad, and OpenError otherwise.
AeadOpen(key, nonce, aad, ct, fault) ==
    IF fault # "none" THEN Err(fault)
    ELSE IF ct[1] = "aead" /\ ct[2] = key /\ ct[3] = nonce /\ ct[4] = aad
         THEN Ok(ct[5])
         ELSE Err("OpenError")

\* A ciphertext with a bit flipped: no output of AeadSeal.
Tamper(ct) == << "flipped", ct[2], ct[3], ct[4], ct[5] >>

\* -------------------------------------------------------- KEM provider
\* Key pair i is (sk(i), pk(i)).
sk(i) == << "sk", i >>

pk(i) == << "pk", i >>

PkOf(s) == pk(s[2])

\* DH(sk_a, pk_b) = DH(sk_b, pk_a)
DH(s, p) == << "dh", {s[2], p[2]} >>

\* "KEM" || kem_id_be16
KemSuite(kem_id) == << 75, 69, 77 >> \o to_be_bytes16(kem_id)

Nsecret(kem_id) == IF kem_id = 32 THEN 32 ELSE 64

ExtractAndExpand(kem_id, dh, kem_context) ==
    labeled_expand(labeled_extract(<< >>, KemSuite(kem_id), "eae_prk", dh),
                   KemSuite(kem_id), "shared_secret", kem_context, Nsecret(kem_id))

\* Kem::encaps with ephemeral key pair e: (zz, enc)
encaps(kem_id, pk_r, e) ==
    [zz |-> ExtractAndExpand(kem_id, << DH(sk(e), pk_r) >>, << pk(e), pk_r >>),
     enc |-> pk(e)]

\* Kem::decaps
decaps(kem_id, enc, sk_r) ==
    ExtractAndExpand(kem_id, << DH(sk_r, enc) >>, << enc, PkOf(sk_r) >>)

\* Kem::auth_encaps
auth_encaps(kem_id, pk_r, sk_s, e) ==
    [zz |-> ExtractAndExpand(kem_id, << DH(sk(e), pk_r), DH(sk_s, pk_r) >>,
                             << pk(e), pk_r, PkOf(sk_s) >>),
     enc |-> pk(e)]

\* Kem::auth_decaps
auth_decaps(kem_id, enc, sk_r, pk_s) ==
    ExtractAndExpand(kem_id, << DH(sk_r, enc), DH(sk_r, pk_s) >>,
                     << enc, PkOf(sk_r), pk_s >>)

\* ----------------------------------------------------------------- Hpke
\* Hpke::new
HpkeNew(mode, kem_id, kdf_id, aead_id) ==
    [mode |-> mode, kem_id |-> kem_id, kdf_id |-> kdf_id, aead_id |-> aead_id,
     nk |-> Nk(aead_id), nn |-> Nn(aead_id), nh |-> Nh(kdf_id)]

\* Hpke::get_ciphersuite: "HPKE" || kem_id || kdf_id || aead_id
get_ciphersuite(h) ==
    << 72, 80, 75, 69 >> \o to_be_bytes16(h.kem_id) \o to_be_bytes16(h.kdf_id)
        \o to_be_bytes16(AeadId(h.aead_id))

\* Hpke::verify_psk_inputs: "ok", or the message of the panic
verify_psk_inputs(h, psk, psk_id) ==
    LET got_psk == psk # << >>
        got_psk_id == psk_id # << >>
    IN  IF (got_psk /\ ~got_psk_id) \/ (~got_psk /\ got_psk_id)
        THEN "Inconsistent PSK inputs"
        ELSE IF got_psk /\ (h.mode = "Base" \/ h.mode = "Auth")
        THEN "PSK input provided when not needed"
        ELSE IF ~got_psk /\ (h.mode = "Psk" \/ h.mode = "AuthPsk")
        THEN "Missing required PSK input"
        ELSE "ok"

\* Hpke::get_key_schedule_context
get_key_schedule_context(h, info, psk_id, suite_id) ==
    LET psk_id_hash == labeled_extract(<< 0 >>, suite_id, "psk_id_hash", psk_id)
        info_hash == labeled_extract(<< 0 >>, suite_id, "info_hash", info)
    IN  << ModeByte(h.mode), psk_id_hash, info_hash >>

\* Hpke::get_secret
get_secret(h, psk, zz, suite_id) ==
    LET psk_hash == labeled_extract(<< >>, suite_id, "psk_hash", psk)
    IN  labeled_extract(psk_hash, suite_id, "secret", zz)

\* Hpke::key_schedule expanding the key to the nonce length
key_schedule_KeyOfNonceLength(h, zz, info, psk, psk_id) ==
    LET v == verify_psk_inputs(h, psk, psk_id)
        suite_id == get_ciphersuite(h)
        key_schedule_context == get_key_schedule_context(h, info, psk_id, suite_id)
        secret == get_secret(h, psk, zz, suite_id)
    IN  IF v # "ok" THEN Panic(v)
        ELSE Ok([key |-> labeled_expand(secret, suite_id, "key", key_schedule_context, h.nn),
                 nonce |-> labeled_expand(secret, suite_id, "nonce", key_schedule_context, h.nn),
                 exporter_secret |->
                     labeled_expand(secret, suite_id, "exp", key_schedule_context, h.nh),
                 sequence_number |-> U32Zero])

\* Hpke::key_schedule: the Context, or the panic of verify_psk_inputs
key_schedule(h, zz, info, psk, psk_id) ==
    LET v == verify_psk_inputs(h, psk, psk_id)
        suite_id == get_ciphersuite(h)
        key_schedule_context == get_key_schedule_context(h, info, psk_id, suite_id)
        secret == get_secret(h, psk, zz, suite_id)
    IN  IF v # "ok" THEN Panic(v)
        ELSE Ok([key |-> labeled_expand(secret, suite_id, "key", key_schedule_context, h.nk),
                 nonce |-> labeled_expand(secret, suite_id, "nonce", key_schedule_context, h.nn),
                 exporter_secret |->
                     labeled_expand(secret, suite_id, "exp", key_schedule_context, h.nh),
                 sequence_number |-> U32Zero])

\* Hpke::setup_sender running the authenticated KEM whenever an sk_s is given
setup_sender_AuthIfGiven(h, pk_r, info, psk, psk_id, sk_s, e) ==
    IF h.mode \in {"Auth", "AuthPsk"} /\ sk_s[1] = "None" THEN Err("InvalidInput")
    ELSE LET k == IF sk_s[1] = "None"
                  THEN encaps(h.kem_id, pk_r, e)
                  ELSE auth_encaps(h.kem_id, pk_r, sk_s[2], e)
             c == key_schedule(h, k.zz, info, unwrap_or_default(psk),
                               unwrap_or_default(psk_id))
         IN  IF c.kind = "Panic" THEN c ELSE Ok([enc |-> k.enc, context |-> c.val])

\* Hpke::setup_sender; e is the ephemeral key pair the KEM draws
setup_sender(h, pk_r, info, psk, psk_id, sk_s, e) ==
    IF h.mode \in {"Auth", "AuthPsk"} /\ sk_s[1] = "None" THEN Err("InvalidInput")
    ELSE LET k == IF h.mode \in {"Base", "Psk"}
                  THEN encaps(h.kem_id, pk_r, e)
                  ELSE auth_encaps(h.kem_id, pk_r, sk_s[2], e)
             c == key_schedule(h, k.zz, info, unwrap_or_default(psk),
                               unwrap_or_default(psk_id))
         IN  IF c.kind = "Panic" THEN c ELSE Ok([enc |-> k.enc, context |-> c.val])

\* Hpke::setup_receiver asking for pk_s in Mode::Auth only
setup_receiver_AuthOnly(h, enc, sk_r, info, psk, psk_id, pk_s) ==
    IF h.mode = "Auth" /\ pk_s[1] = "None" THEN Err("InvalidInput")
    ELSE LET zz == IF h.mode \in {"Base", "Psk"} \/ pk_s[1] = "None"
                   THEN decaps(h.kem_id, enc, sk_r)
                   ELSE auth_decaps(h.kem_id, enc, sk_r, pk_s[2])
             c == key_schedule(h, zz, info, unwrap_or_default(psk),
                               unwrap_or_default(psk_id))
         IN  IF c.kind = "Panic" THEN c ELSE Ok([context |-> c.val])

\* Hpke::setup_receiver
setup_receiver(h, enc, sk_r, info, psk, psk_id, pk_s) ==
    IF h.mode \in {"Auth", "AuthPsk"} /\ pk_s[1] = "None" THEN Err("InvalidInput")
    ELSE LET zz == IF h.mode \in {"Base", "Psk"}
                   THEN decaps(h.kem_id, enc, sk_r)
                   ELSE auth_decaps(h.kem_id, enc, sk_r, pk_s[2])
             c == key_schedule(h, zz, info, unwrap_or_default(psk),
                               unwrap_or_default(psk_id))
         IN  IF c.kind = "Panic" THEN c ELSE Ok([context |-> c.val])

\* -------------------------------------------------------------- Context
\* Context::compute_nonce
compute_nonce(c) ==
    LET seq == to_be_bytes(c.sequence_number)
        enc_seq == Zeros(ExpandLen(c.nonce) - Len(seq)) \o seq
    IN  xor_bytes(enc_seq, c.nonce)

\* Context::increment_seq: `+= 1` on a u32 panics in a build with overflow
\* checks and wraps in one without.
increment_seq(c, overflow_checks) ==
    LET a == U32Add1(c.sequence_number)
    IN  IF a.overflow /\ overflow_checks
        THEN [panic |-> TRUE, context |-> c]
        ELSE [panic |-> FALSE, context |-> [c EXCEPT !.sequence_number = a.val]]

\* Context::seal advancing the counter before it looks at the AEAD's result
ContextSeal_IncrementFirst(c, aad, plain_txt, fault, overflow_checks) ==
    LET ctxt == AeadSeal(c.key, compute_nonce(c), aad, plain_txt, fault)
        inc == increment_seq(c, overflow_checks)
    IN  IF inc.panic
        THEN [context |-> c, res |-> Panic("attempt to add with overflow"), aead |-> TRUE]
        ELSE IF ctxt.kind = "Err"
        THEN [context |-> inc.context, res |-> Err(HPKEErrorFrom(ctxt.val)), aead |-> TRUE]
        ELSE [context |-> inc.context, res |-> ctxt, aead |-> TRUE]

\* Context::seal without the call of increment_seq
ContextSeal_NoIncrement(c, aad, plain_txt, fault, overflow_checks) ==
    LET ctxt == AeadSeal(c.key, compute_nonce(c), aad, plain_txt, fault)
    IN  IF ctxt.kind = "Err"
        THEN [context |-> c, res |-> Err(HPKEErrorFrom(ctxt.val)), aead |-> TRUE]
        ELSE [context |-> c, res |-> ctxt, aead |-> TRUE]

\* Context::seal: the Context afterwards, the result, and whether the AEAD ran
ContextSeal(c, aad, plain_txt, fault, overflow_checks) ==
    LET ctxt == AeadSeal(c.key, compute_nonce(c), aad, plain_txt, fault)
        inc == increment_seq(c, overflow_checks)
    IN  IF ctxt.kind = "Err"
        THEN [context |-> c, res |-> Err(HPKEErrorFrom(ctxt.val)), aead |-> TRUE]
        ELSE IF inc.panic
        THEN [context |-> c, res |-> Panic("attempt to add with overflow"), aead |-> TRUE]
        ELSE [context |-> inc.context, res |-> ctxt, aead |-> TRUE]

\* Context::open advancing the counter before it looks at the AEAD's result
ContextOpen_IncrementFirst(c, aad, cipher_txt, fault, overflow_checks) ==
    LET ptxt == AeadOpen(c.key, compute_nonce(c), aad, cipher_txt, fault)
        inc == increment_seq(c, overflow_checks)
    IN  IF inc.panic
        THEN [context |-> c, res |-> Panic("attempt to add with overflow"), aead |-> TRUE]
        ELSE IF ptxt.kind = "Err"
        THEN [context |-> inc.context, res |-> Err(HPKEErrorFrom(ptxt.val)), aead |-> TRUE]
        ELSE [context |-> inc.context, res |-> ptxt, aead |-> TRUE]

\* Context::open replacing the key after a successful open
ContextOpen_Rekey(c, aad, cipher_txt, fault, overflow_checks) ==
    LET ptxt == AeadOpen(c.key, compute_nonce(c), aad, cipher_txt, fault)
        inc == increment_seq(c, overflow_checks)
    IN  IF ptxt.kind = "Err"
        THEN [context |-> c, res |-> Err(HPKEErrorFrom(ptxt.val)), aead |-> TRUE]
        ELSE IF inc.panic
        THEN [context |-> c, res |-> Panic("attempt to add with overflow"), aead |-> TRUE]
        ELSE [context |-> [inc.context EXCEPT !.key = c.exporter_secret],
              res |-> ptxt, aead |-> TRUE]

\* Context::open
ContextOpen(c, aad, cipher_txt, fault, overflow_checks) ==
    LET ptxt == AeadOpen(c.key, compute_nonce(c), aad, cipher_txt, fault)
        inc == increment_seq(c, overflow_checks)
    IN  IF ptxt.kind = "Err"
        THEN [context |-> c, res |-> Err(HPKEErrorFrom(ptxt.val)), aead |-> TRUE]
        ELSE IF inc.panic
        THEN [context |-> c, res |-> Panic("attempt to add with overflow"), aead |-> TRUE]
        ELSE [context |-> inc.context, res |-> ptxt, aead |-> TRUE]

\* Context::export mixing the sequence number into the exporter context
ContextExport_WithSeq(h, c, exporter_context, length) ==
    labeled_expand(c.exporter_secret, get_ciphersuite(h), "sec",
                   exporter_context \o to_be_bytes(c.sequence_number), length)

\* Context::export
ContextExport(h, c, exporter_context, length) ==
    labeled_expand(c.exporter_secret, get_ciphersuite(h), "sec", exporter_context, length)

\* ------------------------------------------------- single-shot operations
\* Hpke::seal
HpkeSeal(h, pk_r, info, aad, plain_txt, psk, psk_id, sk_s, e, fault, overflow_checks) ==
    LET s == setup_sender(h, pk_r, info, psk, psk_id, sk_s, e)
    IN  IF s.kind # "Ok" THEN [res |-> s, aead |-> FALSE]
        ELSE LET c == ContextSeal(s.val.context, aad, plain_txt, fault, overflow_checks)
             IN  [res |-> IF c.res.kind = "Ok"
                          THEN Ok([enc |-> s.val.enc, ctxt |-> c.res.val])
                          ELSE c.res,
                  aead |-> c.aead]

\* Hpke::open on a Context that has counted one message already
HpkeOpen_Advanced(h, enc, sk_r, info, aad, ct, psk, psk_id, pk_s, fault, overflow_checks) ==
    LET s == setup_receiver(h, enc, sk_r, info, psk, psk_id, pk_s)
    IN  IF s.kind # "Ok" THEN [res |-> s, aead |-> FALSE]
        ELSE LET c == ContextOpen(increment_seq(s.val.context, overflow_checks).context,
                                  aad, ct, fault, overflow_checks)
             IN  [res |-> c.res, aead |-> c.aead]

\* Hpke::open
HpkeOpen(h, enc, sk_r, info, aad, ct, psk, psk_id, pk_s, fault, overflow_checks) ==
    LET s == setup_receiver(h, enc, sk_r, info, psk, psk_id, pk_s)
    IN  IF s.kind # "Ok" THEN [res |-> s, aead |-> FALSE]
        ELSE LET c == ContextOpen(s.val.context, aad, ct, fault, overflow_checks)
             IN  [res |-> c.res, aead |-> c.aead]

\* Hpke::send_export
send_export(h, pk_r, info, psk, psk_id, sk_s, exporter_context, length, e) ==
    LET s == setup_sender(h, pk_r, info, psk, psk_id, sk_s, e)
    IN  IF s.kind # "Ok" THEN s
        ELSE Ok([enc |-> s.val.enc,
                 secret |-> ContextExport(h, s.val.context, exporter_context, length)])

\* Hpke::receiver_export handing psk and psk_id to setup_receiver in the wrong order
receiver_export_Swapped(h, enc, sk_r, info, psk, psk_id, pk_s, exporter_context, length) ==
    LET s == setup_receiver(h, enc, sk_r, info, psk_id, psk, pk_s)
    IN  IF s.kind # "Ok" THEN s
        ELSE Ok(ContextExport(h, s.val.context, exporter_context, length))

\* Hpke::receiver_export
receiver_export(h, enc, sk_r, info, psk, psk_id, pk_s, exporter_context, length) ==
    LET s == setup_receiver(h, enc, sk_r, info, psk, psk_id, pk_s)
    IN  IF s.kind # "Ok" THEN s
        ELSE Ok(ContextExport(h, s.val.context, exporter_context, length))

\* ------------------------------------------------------- the input sets
\* The receiver's key pair is 1, the sender's 2, the KEM's ephemeral one 3.
Infos == {<< >>, << 105 >>}

PskOpts == {None, Some(<< 112 >>)}

PskIdOpts == {None, Some(<< 113 >>)}

SkSOpts == {None, Some(sk(2))}

PkSOpts == {None, Some(pk(2))}

PkRs == {pk(1)}

SkRs == {sk(1)}

Eph == {3}

\* The enc the receiver is given: the sender's, or another one.
Encs == {pk(3), pk(4)}

\* (aad, pt) pairs handed to seal
Msgs == {[aad |-> << >>, pt |-> << 116 >>], [aad |-> << 97 >>, pt |-> << 117 >>]}

OtherAad(a) == IF a = << >> THEN << 97 >> ELSE << >>

\* What open is handed: a sealed ciphertext with its aad, the ciphertext with a
\* bit flipped, or the ciphertext with another aad.
OpenCases == {"sent", "flipped", "aad"}

ExporterContexts == {<< >>, << 120 >>}

Lengths == {32}

Roles == {"S", "R"}

\* ---------------------------------------------------------------- state
VARIABLES
    hpke,             \* the engine configuration, Hpke
    overflow_checks,  \* whether the build checks integer overflow
    has,              \* the roles that hold a Context
    ctx,              \* the Context of the sender (S) and of the receiver (R)
    made,             \* history: the setup call each Context came from, with
                      \* the engine and the Context as they were then, and the
                      \* number of its seal and open calls that returned Ok before
                      \* the first state of the behaviour
    sealed,           \* history: what the sender Context sealed, in order, each
                      \* ciphertext with its position among all it sealed
    succ,             \* history: the seal and open calls of each Context that
                      \* returned Ok since the first state of the behaviour
    res               \* the last call, its arguments and its result

vars == << hpke, overflow_checks, has, ctx, made, sealed, succ, res >>

NoCtx == [key |-> << >>, nonce |-> << >>, exporter_secret |-> << >>,
          sequence_number |-> U32Zero]

NoMade == [enc |-> pk(0), key |-> pk(0), info |-> << >>, psk |-> None,
           psk_id |-> None, auth |-> None, context |-> NoCtx, before |-> U32Zero,
           hpke |-> << >>]

\* Hpke::new for each mode and each AEAD; the KEM is DHKEM(X25519) and the KDF
\* HKDF-SHA256.
Engines ==
    {HpkeNew("Base", 32, 1, "AesGcm128"), HpkeNew("Psk", 32, 1, "ChaCha20Poly1305"),
     HpkeNew("Auth", 32, 1, "AesGcm256"), HpkeNew("AuthPsk", 32, 1, "AesGcm128")}

\* No run of MaxMsgs messages from sequence number 0 reaches the end of the
\* u32 range, so the build is fixed here; InitLong draws it.
Init ==
    /\ hpke \in Engines
    /\ overflow_checks = TRUE
    /\ has = {}
    /\ ctx = [w \in Roles |-> NoCtx]
    /\ made = [w \in Roles |-> NoMade]
    /\ sealed = << >>
    /\ succ = [w \in Roles |-> 0]
    /\ res = [op |-> "new"]

\* let (enc, context) = hpke.setup_sender(..): the sender's one Context
SetupSender ==
    \E pk_r \in PkRs, info \in Infos, psk \in PskOpts, psk_id \in PskIdOpts,
       sk_s \in SkSOpts, e \in Eph :
        LET r == setup_sender(hpke, pk_r, info, psk, psk_id, sk_s, e)
        IN  /\ "S" \notin has
            /\ res' = [op |-> "setup_sender", who |-> "S", out |-> r, key |-> pk_r,
                       info |-> info, psk |-> psk, psk_id |-> psk_id, auth |-> sk_s,
                       e |-> e]
            /\ IF r.kind = "Ok"
               THEN /\ has' = has \cup {"S"}
                    /\ ctx' = [ctx EXCEPT !["S"] = r.val.context]
                    /\ made' = [made EXCEPT !["S"] =
                                   [enc |-> r.val.enc, key |-> pk_r, info |-> info,
                                    psk |-> psk, psk_id |-> psk_id, auth |-> sk_s,
                                    context |-> r.val.context, before |-> U32Zero,
                                    hpke |-> hpke]]
               ELSE UNCHANGED << has, ctx, made >>
            /\ UNCHANGED << hpke, overflow_checks, sealed, succ >>

\* let context = hpke.setup_receiver(..): the receiver's one Context
SetupReceiver ==
    \E enc \in Encs, sk_r \in SkRs, info \in Infos, psk \in PskOpts,
       psk_id \in PskIdOpts, pk_s \in PkSOpts :
        LET r == setup_receiver(hpke, enc, sk_r, info, psk, psk_id, pk_s)
        IN  /\ "R" \notin has
            /\ res' = [op |-> "setup_receiver", who |-> "R", out |-> r, enc |-> enc,
                       key |-> sk_r, info |-> info, psk |-> psk, psk_id |-> psk_id,
                       auth |-> pk_s]
            /\ IF r.kind = "Ok"
               THEN /\ has' = has \cup {"R"}
                    /\ ctx' = [ctx EXCEPT !["R"] = r.val.context]
                    /\ made' = [made EXCEPT !["R"] =
                                   [enc |-> enc, key |-> sk_r, info |-> info,
                                    psk |-> psk, psk_id |-> psk_id, auth |-> pk_s,
                                    context |-> r.val.context, before |-> U32Zero,
                                    hpke |-> hpke]]
               ELSE UNCHANGED << has, ctx, made >>
            /\ UNCHANGED << hpke, overflow_checks, sealed, succ >>

\* context.seal(aad, pt) on the sender Context
Seal ==
    \E m \in Msgs, fault \in Faults :
        LET r == ContextSeal(ctx["S"], m.aad, m.pt, fault, overflow_checks)
        IN  /\ "S" \in has
            /\ succ["S"] < MaxMsgs
            /\ ctx' = [ctx EXCEPT !["S"] = r.context]
            /\ sealed' = IF r.res.kind = "Ok"
                         THEN Append(sealed, [ct |-> r.res.val, aad |-> m.aad, pt |-> m.pt,
                                              seq |-> ctx["S"].sequence_number,
                                              index |-> CountAdd(Count(0, made["S"].before),
                                                                 succ["S"])])
                         ELSE sealed
            /\ succ' = IF r.res.kind = "Ok" THEN [succ EXCEPT !["S"] = @ + 1] ELSE succ
            /\ res' = [op |-> "seal", who |-> "S", out |-> r.res, aead |-> r.aead,
                       fault |-> fault, seq |-> ctx["S"].sequence_number,
                       n |-> succ["S"]]
            /\ UNCHANGED << hpke, overflow_checks, has, made >>

\* context.open(aad, ct) on the receiver Context
Open ==
    \E i \in 1..Len(sealed), c \in OpenCases, fault \in Faults :
        LET ct == IF c = "flipped" THEN Tamper(sealed[i].ct) ELSE sealed[i].ct
            aad == IF c = "aad" THEN OtherAad(sealed[i].aad) ELSE sealed[i].aad
            r == ContextOpen(ctx["R"], aad, ct, fault, overflow_checks)
        IN  /\ "R" \in has
            /\ fault = "none" \/ c = "sent"
            /\ ctx' = [ctx EXCEPT !["R"] = r.context]
            /\ succ' = IF r.res.kind = "Ok" THEN [succ EXCEPT !["R"] = @ + 1] ELSE succ
            /\ res' = [op |-> "open", who |-> "R", out |-> r.res, aead |-> r.aead,
                       fault |-> fault, idx |-> i, case |-> c,
                       seq |-> ctx["R"].sequence_number, n |-> succ["R"]]
            /\ UNCHANGED << hpke, overflow_checks, has, made, sealed >>

\* context.export(exporter_context, length) on either Context
Export ==
    \E who \in has, ec \in ExporterContexts, L \in Lengths :
        /\ res' = [op |-> "export", who |-> who,
                   out |-> Ok(ContextExport(hpke, ctx[who], ec, L)),
                   ec |-> ec, length |-> L, seq |-> ctx[who].sequence_number]
        /\ UNCHANGED << hpke, overflow_checks, has, ctx, made, sealed, succ >>

\* The single-shot calls build their own Context, use it once and drop it, and
\* the conversions are pure: they share nothing with the two streamed Contexts
\* or with each other, and the model makes them on the fresh engine, a
\* receiver-side call right after the sender-side call whose output it takes.

\* hpke.seal(..)
SingleShotSeal ==
    \E pk_r \in PkRs, info \in Infos, m \in Msgs, psk \in PskOpts, psk_id \in PskIdOpts,
       sk_s \in SkSOpts, e \in Eph, fault \in Faults :
        LET r == HpkeSeal(hpke, pk_r, info, m.aad, m.pt, psk, psk_id, sk_s, e, fault,
                          overflow_checks)
        IN  /\ res.op = "new"
            /\ res' = [op |-> "hpke_seal", out |-> r.res, aead |-> r.aead, fault |-> fault,
                       key |-> pk_r, info |-> info, aad |-> m.aad, pt |-> m.pt,
                       psk |-> psk, psk_id |-> psk_id, auth |-> sk_s, e |-> e]
            /\ UNCHANGED << hpke, overflow_checks, has, ctx, made, sealed, succ >>

\* hpke.open(..) of what the last hpke.seal returned
SingleShotOpen ==
    \E enc \in Encs, sk_r \in SkRs, info \in Infos, c \in OpenCases, psk \in PskOpts,
       psk_id \in PskIdOpts, pk_s \in PkSOpts, fault \in Faults :
        LET sent == res.out.val.ctxt
            ct == IF c = "flipped" THEN Tamper(sent) ELSE sent
            aad == IF c = "aad" THEN OtherAad(res.aad) ELSE res.aad
            r == HpkeOpen(hpke, enc, sk_r, info, aad, ct, psk, psk_id, pk_s, fault,
                          overflow_checks)
        IN  /\ res.op = "hpke_seal" /\ res.out.kind = "Ok"
            /\ fault = "none" \/ c = "sent"
            /\ res' = [op |-> "hpke_open", out |-> r.res, aead |-> r.aead, fault |-> fault,
                       enc |-> enc, key |-> sk_r, info |-> info, case |-> c,
                       psk |-> psk, psk_id |-> psk_id, auth |-> pk_s, sent |-> res]
            /\ UNCHANGED << hpke, overflow_checks, has, ctx, made, sealed, succ >>

\* hpke.send_export(..)
SendExport ==
    \E pk_r \in PkRs, info \in Infos, psk \in PskOpts, psk_id \in PskIdOpts,
       sk_s \in SkSOpts, ec \in ExporterContexts, L \in Lengths, e \in Eph :
        /\ res.op = "new"
        /\ res' = [op |-> "send_export",
                   out |-> send_export(hpke, pk_r, info, psk, psk_id, sk_s, ec, L, e),
                   key |-> pk_r, info |-> info, psk |-> psk, psk_id |-> psk_id,
                   auth |-> sk_s, ec |-> ec, length |-> L]
        /\ UNCHANGED << hpke, overflow_checks, has, ctx, made, sealed, succ >>

\* hpke.receiver_export(..) after a send_export
ReceiverExport ==
    \E enc \in Encs, sk_r \in SkRs, info \in Infos, psk \in PskOpts, psk_id \in PskIdOpts,
       pk_s \in PkSOpts, ec \in ExporterContexts, L \in Lengths :
        /\ res.op = "send_export" /\ res.out.kind = "Ok"
        /\ res' = [op |-> "receiver_export",
                   out |-> receiver_export(hpke, enc, sk_r, info, psk, psk_id, pk_s, ec, L),
                   enc |-> enc, key |-> sk_r, info |-> info, psk |-> psk,
                   psk_id |-> psk_id, auth |-> pk_s, ec |-> ec, length |-> L,
                   sent |-> res]
        /\ UNCHANGED << hpke, overflow_checks, has, ctx, made, sealed, succ >>

\* aead::Mode::try_from(x)
AeadModeTryFrom ==
    \E x \in Codepoints :
        /\ res.op = "new"
        /\ res' = [op |-> "aead_try_from", x |-> x, out |-> AeadTryFrom(x)]
        /\ UNCHANGED << hpke, overflow_checks, has, ctx, made, sealed, succ >>

\* Mode::from(x)
ModeFromU16 ==
    \E x \in Codepoints :
        /\ res.op = "new"
        /\ res' = [op |-> "mode_from", x |-> x, out |-> ModeFrom(x)]
        /\ UNCHANGED << hpke, overflow_checks, has, ctx, made, sealed, succ >>

Next ==
    \/ SetupSender
    \/ SetupReceiver
    \/ Seal
    \/ Open
    \/ Export
    \/ SingleShotSeal
    \/ SingleShotOpen
    \/ SendExport
    \/ ReceiverExport
    \/ AeadModeTryFrom
    \/ ModeFromU16

Spec == Init /\ [][Next]_vars

\* ------------------------------------------------- a long-running session
\* The inputs of a setup that the engine's mode accepts.
GoodPsk(h) == IF h.mode \in {"Psk", "AuthPsk"} THEN Some(<< 112 >>) ELSE None

GoodPskId(h) == IF h.mode \in {"Psk", "AuthPsk"} THEN Some(<< 113 >>) ELSE None

\* The state of a sender and a receiver that were set up with matching inputs,
\* where the sender has sealed all but the last NearMax + 1 or fewer of the 2^32
\* sequence numbers, its first message being m0, and the receiver either has
\* opened them all, in step, or has opened none.
InitLong ==
    \E info \in Infos, k \in 0..NearMax, m0 \in Msgs, in_step \in BOOLEAN :
        LET s == setup_sender(hpke, pk(1), info, GoodPsk(hpke), GoodPskId(hpke),
                              Some(sk(2)), 3)
            r == setup_receiver(hpke, s.val.enc, sk(1), info, GoodPsk(hpke),
                                GoodPskId(hpke), Some(pk(2)))
            start == [w \in Roles |->
                        IF w = "S" \/ in_step THEN U32Minus(U32Max, k) ELSE U32Zero]
            first == ContextSeal(s.val.context, m0.aad, m0.pt, "none", TRUE)
        IN  /\ hpke \in Engines
            /\ overflow_checks \in BOOLEAN
            /\ has = Roles
            /\ ctx = [w \in Roles |->
                        [(IF w = "S" THEN s ELSE r).val.context
                            EXCEPT !.sequence_number = start[w]]]
            /\ made = [w \in Roles |->
                         [enc |-> s.val.enc, key |-> IF w = "S" THEN pk(1) ELSE sk(1),
                          info |-> info, psk |-> GoodPsk(hpke), psk_id |-> GoodPskId(hpke),
                          auth |-> IF w = "S" THEN Some(sk(2)) ELSE Some(pk(2)),
                          context |-> (IF w = "S" THEN s ELSE r).val.context,
                          before |-> start[w], hpke |-> hpke]]
            /\ sealed = << [ct |-> first.res.val, aad |-> m0.aad, pt |-> m0.pt,
                            seq |-> U32Zero, index |-> Count(0, U32Zero)] >>
            /\ succ = [w \in Roles |-> 0]
            /\ res = [op |-> "new"]

NextLong ==
    \/ Seal
    \/ Open
    \/ Export

SpecLong == InitLong /\ [][NextLong]_vars

\* ----------------------------------------------------------- properties
AuthModes == {"Auth", "AuthPsk"}

\* The receiver's setup call r was given the enc the sender's setup call s
\* returned, the private key of the public key s was given, the public key of the
\* sender key s was given (in the auth modes), and the same info, psk and psk_id.
MatchingCalls(s, r) ==
    /\ r.enc = s.enc
    /\ PkOf(r.key) = s.key
    /\ r.info = s.info
    /\ unwrap_or_default(r.psk) = unwrap_or_default(s.psk)
    /\ unwrap_or_default(r.psk_id) = unwrap_or_default(s.psk_id)
    /\ hpke.mode \in AuthModes => r.auth = Some(PkOf(s.auth[2]))

Matching == has = Roles /\ MatchingCalls(made["S"], made["R"])

\* C1: round trip.  When the receiver Context comes from setup_receiver with the
\* enc and the matching inputs of the sender's setup_sender, and it has opened
\* the sender's first i-1 ciphertexts, its open of the i-th ciphertext with the
\* aad it was sealed with returns the plaintext that was sealed (the AEAD
\* provider working).
C1_RoundTrip ==
    (/\ res.op = "open"
     /\ Matching
     /\ res.case = "sent"
     /\ res.fault = "none"
     /\ res.n = res.idx - 1)
    => IsOk(res.out, sealed[res.idx].pt)

\* C1 witness: in AuthPSK mode the receiver has opened the second ciphertext
\* after the first.
C1_Witness ==
    /\ res.op = "open"
    /\ Matching
    /\ hpke.mode = "AuthPsk"
    /\ res.case = "sent"
    /\ res.n = 1
    /\ res.idx = 2
    /\ IsOk(res.out, sealed[2].pt)

\* C2: export equivalence.  receiver_export with the enc send_export returned,
\* matching keys, info, psk and psk_id and the same (exporter_context, L) returns
\* the bytes send_export returned.
C2_ExportEquivalence ==
    (/\ res.op = "receiver_export"
     /\ MatchingCalls([res.sent EXCEPT !.out = 0] @@ [enc |-> res.sent.out.val.enc], res)
     /\ res.ec = res.sent.ec
     /\ res.length = res.sent.length)
    => IsOk(res.out, res.sent.out.val.secret)

\* C2 witness: a matching receiver_export after a send_export in PSK mode.
C2_Witness ==
    /\ res.op = "receiver_export"
    /\ hpke.mode = "Psk"
    /\ MatchingCalls([res.sent EXCEPT !.out = 0] @@ [enc |-> res.sent.out.val.enc], res)
    /\ res.ec = res.sent.ec
    /\ res.length = res.sent.length
    /\ res.out.kind = "Ok"

\* C3: the sequence number of a Context only grows: a seal or an open that
\* returns Ok leaves it greater than it was, so no value comes back.
C3_SequenceIncreases ==
    (res.op \in {"seal", "open"} /\ res.out.kind = "Ok")
    => U32Lt(res.seq, ctx[res.who].sequence_number)

\* C4: a seal or an open at the greatest sequence number fails with
\* MessageLimitReached, without a call of the AEAD.
C4_MessageLimit ==
    (res.op \in {"seal", "open"} /\ res.seq = U32Max)
    => (IsErr(res.out, "MessageLimitReached") /\ ~res.aead)

\* C5: an open whose ciphertext or aad is not what was sealed returns OpenError,
\* and an open that returns OpenError leaves the sequence number as it was.
C5_OpenFailureKeepsSeq ==
    res.op = "open" =>
        /\ (res.fault = "none" /\ res.case # "sent") => IsErr(res.out, "OpenError")
        /\ IsErr(res.out, "OpenError") => ctx[res.who].sequence_number = res.seq

\* C5 witness: a flipped ciphertext was rejected by a Context that had opened one
\* before.
C5_Witness ==
    /\ res.op = "open"
    /\ res.case = "flipped"
    /\ IsErr(res.out, "OpenError")
    /\ res.seq = U32(0, 1)
    /\ ctx["R"].sequence_number = U32(0, 1)

\* C6: a seal that returns an error returns an HPKEError and no ciphertext, and
\* leaves the sequence number as it was.
C6_SealFailureKeepsSeq ==
    (res.op = "seal" /\ res.out.kind = "Err")
    => /\ res.out.val \in {"OpenError", "InvalidConfig", "InvalidInput"}
       /\ ctx[res.who].sequence_number = res.seq
       /\ Len(sealed) = res.n

\* C6 witness: the AEAD failed inside the second seal of a Context.
C6_Witness ==
    /\ res.op = "seal"
    /\ res.out.kind = "Err"
    /\ res.seq = U32(0, 1)
    /\ ctx["S"].sequence_number = U32(0, 1)

\* C7: export returns what export on the Context as it was created returns,
\* whatever seal and open calls came before, and the sequence number after it
\* is the one before it.
C7_ExportReadOnly ==
    res.op = "export" =>
        /\ IsOk(res.out, ContextExport(hpke, made[res.who].context, res.ec, res.length))
        /\ ctx[res.who].sequence_number = res.seq

\* C7 witness: an export on the receiver Context after two opens.
C7_Witness ==
    /\ res.op = "export"
    /\ res.who = "R"
    /\ succ["R"] = 2
    /\ ctx["R"].sequence_number = U32(0, 2)

\* The psk and psk_id that PSK validation rejects: one empty and the other not,
\* a psk in Base or Auth mode, none in PSK or AuthPSK mode.
BadPsk(psk, psk_id) ==
    LET got_psk == unwrap_or_default(psk) # << >>
        got_psk_id == unwrap_or_default(psk_id) # << >>
    IN  \/ got_psk # got_psk_id
        \/ got_psk /\ hpke.mode \in {"Base", "Auth"}
        \/ ~got_psk /\ hpke.mode \in {"Psk", "AuthPsk"}

\* C8: a setup, or a single-shot operation, whose psk and psk_id PSK validation
\* rejects returns InvalidInput.
C8_PskValidation ==
    (/\ res.op \in {"setup_sender", "setup_receiver", "hpke_seal", "hpke_open",
                    "send_export", "receiver_export"}
     /\ BadPsk(res.psk, res.psk_id))
    => IsErr(res.out, "InvalidInput")

\* C9: in Auth and AuthPSK mode setup_sender without sk_s and setup_receiver
\* without pk_s return InvalidInput, and the caller holds no Context.
C9_AuthRequirement ==
    (/\ res.op \in {"setup_sender", "setup_receiver"}
     /\ hpke.mode \in AuthModes
     /\ res.auth = None)
    => (IsErr(res.out, "InvalidInput") /\ res.who \notin has)

\* C9 witness: setup_receiver without pk_s in AuthPSK mode was refused.
C9_Witness ==
    /\ res.op = "setup_receiver"
    /\ hpke.mode = "AuthPsk"
    /\ res.auth = None
    /\ IsErr(res.out, "InvalidInput")
    /\ "R" \notin has

\* C10: the export-only AEAD id converts to an AEAD mode an engine can be built
\* with.
C10_ExportOnlyConfigurable ==
    (res.op = "aead_try_from" /\ res.x = ExportOnlyId) => res.out.kind = "Ok"

\* C11: out-of-order rejection.  With the sender's ciphertexts numbered c_0, c_1,
\* ... in the order they were sealed and the receiver Context at sequence number
\* j, an open of c_i with its own aad fails with OpenError unless i = j (the AEAD
\* provider working).
C11_OutOfOrderRejected ==
    (/\ res.op = "open"
     /\ res.fault = "none"
     /\ res.case = "sent"
     /\ sealed[res.idx].index # Count(0, res.seq))
    => IsErr(res.out, "OpenError")

\* C12: authentication.  An open of a ciphertext with a bit flipped, or with an
\* aad other than the one it was sealed with, or by a receiver Context that was
\* derived from another enc than the sender's, fails with OpenError (the AEAD
\* provider working); the single-shot open of such an input returns no
\* plaintext.
C12_Authentication ==
    /\ (/\ res.op = "open"
        /\ res.fault = "none"
        /\ res.case # "sent" \/ made["R"].enc # made["S"].enc)
       => IsErr(res.out, "OpenError")
    /\ (/\ res.op = "hpke_open"
        /\ res.fault = "none"
        /\ res.case # "sent" \/ res.enc # res.sent.out.val.enc)
       => res.out.kind # "Ok"

\* C12 witness: a receiver Context derived from another enc, every other input
\* matching, was handed the sender's first ciphertext with its aad and answered
\* OpenError.
C12_Witness ==
    /\ res.op = "open"
    /\ res.fault = "none"
    /\ res.case = "sent"
    /\ res.idx = 1
    /\ res.seq = U32Zero
    /\ made["R"].enc # made["S"].enc
    /\ MatchingCalls([made["S"] EXCEPT !.enc = made["R"].enc], made["R"])
    /\ IsErr(res.out, "OpenError")

\* C13: nonce uniqueness.  No two of the ciphertexts a Context has sealed were
\* sealed under the same AEAD nonce, and so no two of them are equal, whatever
\* their pt and aad.
C13_NonceUniqueness ==
    \A i, j \in 1..Len(sealed) :
        i # j => (sealed[i].ct[3] # sealed[j].ct[3] /\ sealed[i].ct # sealed[j].ct)

\* C14: the conversion of a codepoint that is not registered, to a Mode or to an
\* AEAD mode, returns an error value to the caller: it neither returns a
\* registered value nor aborts.
C14_UnknownCodepoint ==
    (\/ res.op = "mode_from" /\ res.x \notin {0, 1, 2, 3}
     \/ res.op = "aead_try_from" /\ res.x \notin {1, 2, 3, ExportOnlyId})
    => res.out.kind = "Err"

\* C15: in Base and PSK mode setup_sender returns, for the same pk_r, info, psk,
\* psk_id and the same ephemeral key pair of the KEM, the same result (the enc
\* and the Context, or the failure) without an sk_s and with any sk_s.
C15_SkSIgnored ==
    (res.op = "setup_sender" /\ hpke.mode \in {"Base", "Psk"})
    => \A sk_s \in {None, Some(sk(2)), Some(sk(5))} :
           SameResult(setup_sender(hpke, res.key, res.info, res.psk, res.psk_id, sk_s,
                                   res.e),
                      res.out)

\* C15 witness: in PSK mode setup_sender was given an sk_s and returned the enc
\* and the Context, at sequence number 0, that it returns without one.
C15_Witness ==
    /\ res.op = "setup_sender"
    /\ hpke.mode = "Psk"
    /\ res.auth = Some(sk(2))
    /\ res.out.kind = "Ok"
    /\ res.out.val.context.sequence_number = U32Zero
    /\ res.out = setup_sender(hpke, res.key, res.info, res.psk, res.psk_id, None, res.e)

\* C16: a Context that setup_sender or setup_receiver returns is at sequence
\* number 0, and every Context, fresh or after any seal, open and export calls,
\* has a key of Nk(aead_id) bytes, a nonce of Nn(aead_id) bytes and an
\* exporter_secret of Nh(kdf_id) bytes.
C16_ContextShape ==
    /\ (res.op \in {"setup_sender", "setup_receiver"} /\ res.out.kind = "Ok")
       => (/\ res.out.val.context.sequence_number = U32Zero
           /\ ctx[res.who] = res.out.val.context)
    /\ \A w \in has :
           /\ ExpandLen(ctx[w].key) = Nk(hpke.aead_id)
           /\ ExpandLen(ctx[w].nonce) = Nn(hpke.aead_id)
           /\ ExpandLen(ctx[w].exporter_secret) = Nh(hpke.kdf_id)

\* C16 witness: an AES-256-GCM receiver Context with a 32-byte key after two
\* opens and an export.
C16_Witness ==
    /\ has = Roles
    /\ hpke.aead_id = "AesGcm256"
    /\ res.op = "export"
    /\ res.who = "R"
    /\ made["R"].context.sequence_number = U32Zero
    /\ ctx["R"].sequence_number = U32(0, 2)
    /\ ExpandLen(ctx["R"].key) = 32
    /\ ExpandLen(ctx["R"].nonce) = 12
    /\ ExpandLen(ctx["R"].exporter_secret) = 32

\* C17: the seal number n of a Context (n = 0, 1, ...) uses the nonce
\* nonce_base XOR LeftPad(n as 8 big-endian bytes, Nn), and the counter goes past
\* 2^32 - 1 without an overflow: the call at that value does not abort.
C17_Nonce64 ==
    /\ \A i \in 1..Len(sealed) :
           LET n == sealed[i].index
               be64 == to_be_bytes(U32(0, n.hi)) \o to_be_bytes(n.lo)
               nonce_base == made["S"].context.nonce
           IN  sealed[i].ct[3]
                   = xor_bytes(Zeros(Nn(hpke.aead_id) - Len(be64)) \o be64, nonce_base)
    /\ (res.op \in {"seal", "open"} /\ res.seq = U32Max) => res.out.kind # "Panic"

\* C18: the Context of setup_sender holds the key schedule of the shared secret
\* zz of the KEM: with secret = LabeledExtract(zz, suite_id, "secret", psk) (the
\* salt is zz, the input keying material the psk) and ksc = mode || psk_id_hash ||
\* info_hash, key = LabeledExpand(secret, suite_id, "key", ksc, Nk), nonce =
\* LabeledExpand(secret, suite_id, "base_nonce", ksc, Nn) and exporter_secret =
\* LabeledExpand(secret, suite_id, "exp", ksc, Nh).
C18_KeySchedule ==
    (res.op = "setup_sender" /\ res.out.kind = "Ok")
    => LET zz == IF hpke.mode \in AuthModes
                 THEN auth_encaps(hpke.kem_id, res.key, res.auth[2], res.e).zz
                 ELSE encaps(hpke.kem_id, res.key, res.e).zz
           suite_id == get_ciphersuite(hpke)
           secret == labeled_extract(zz, suite_id, "secret", unwrap_or_default(res.psk))
           ksc == get_key_schedule_context(hpke, res.info, unwrap_or_default(res.psk_id),
                                           suite_id)
           c == res.out.val.context
       IN  /\ c.key = labeled_expand(secret, suite_id, "key", ksc, Nk(hpke.aead_id))
           /\ c.nonce = labeled_expand(secret, suite_id, "base_nonce", ksc, Nn(hpke.aead_id))
           /\ c.exporter_secret = labeled_expand(secret, suite_id, "exp", ksc, Nh(hpke.kdf_id))

\* C19: an error of the AEAD inside seal or open comes back to the caller with
\* its own kind: OpenError as OpenError, an invalid configuration as
\* InvalidConfig.
C19_AeadErrorKinds ==
    res.op \in {"seal", "open"} =>
        /\ res.fault = "InvalidConfig" => IsErr(res.out, "InvalidConfig")
        /\ (res.fault = "none" /\ res.op = "open" /\ res.case # "sent")
           => IsErr(res.out, "OpenError")

\* C20: Hpke::seal returns what setup_sender followed by the first seal of the
\* Context it made returns, the enc with the ciphertext, and Hpke::open what
\* setup_receiver followed by the first open returns; when the setup fails its
\* result is the result of the call and the AEAD is not run.
C20_SingleShotComposition ==
    /\ res.op = "hpke_seal" =>
           LET s == setup_sender(hpke, res.key, res.info, res.psk, res.psk_id, res.auth,
                                 res.e)
               c == ContextSeal(s.val.context, res.aad, res.pt, res.fault, overflow_checks)
           IN  IF s.kind # "Ok" THEN SameResult(res.out, s) /\ ~res.aead
               ELSE /\ s.val.context.sequence_number = U32Zero
                    /\ res.aead
                    /\ SameResult(res.out, IF c.res.kind = "Ok"
                                           THEN Ok([enc |-> s.val.enc, ctxt |-> c.res.val])
                                           ELSE c.res)
    /\ res.op = "hpke_open" =>
           LET s == setup_receiver(hpke, res.enc, res.key, res.info, res.psk, res.psk_id,
                                   res.auth)
               sent == res.sent.out.val.ctxt
               ct == IF res.case = "flipped" THEN Tamper(sent) ELSE sent
               aad == IF res.case = "aad" THEN OtherAad(res.sent.aad) ELSE res.sent.aad
               c == ContextOpen(s.val.context, aad, ct, res.fault, overflow_checks)
           IN  IF s.kind # "Ok" THEN SameResult(res.out, s) /\ ~res.aead
               ELSE /\ s.val.context.sequence_number = U32Zero
                    /\ res.aead
                    /\ SameResult(res.out, c.res)

\* C20 witness: in Auth mode Hpke::open of what Hpke::seal returned, with the
\* matching inputs, ran the AEAD and returned the plaintext.
C20_Witness ==
    /\ res.op = "hpke_open"
    /\ hpke.mode = "Auth"
    /\ res.case = "sent"
    /\ res.aead
    /\ IsOk(res.out, res.sent.pt)

\* C21: frame of seal and open.  In every reachable state the engine
\* configuration and the key, the nonce and the exporter_secret of a Context are
\* what they were when the Context was created: only sequence_number moves.
C21_Frame ==
    \A w \in has :
        /\ hpke = made[w].hpke
        /\ ctx[w].key = made[w].context.key
        /\ ctx[w].nonce = made[w].context.nonce
        /\ ctx[w].exporter_secret = made[w].context.exporter_secret

\* C21 witness: after two seals and two opens both Contexts hold the key, the
\* nonce and the exporter_secret of their creation, at sequence number 2.
C21_Witness ==
    /\ has = Roles
    /\ res.op = "open"
    /\ res.out.kind = "Ok"
    /\ \A w \in Roles :
           /\ ctx[w].sequence_number = U32(0, 2)
           /\ ctx[w] = [made[w].context EXCEPT !.sequence_number = U32(0, 2)]
           /\ made[w].hpke = hpke

\* C22: the sequence number of a Context is the number of its seal and open
\* calls that returned Ok: such a call adds 1, and a call that failed and an
\* export add nothing.
C22_SeqCountsSuccesses ==
    \A w \in has :
        Count(0, ctx[w].sequence_number) = CountAdd(Count(0, made[w].before), succ[w])

====
